---------------------------- MODULE Spec2Model ----------------------------
(***************************************************************************)
(* State-machine model of snake_game.py (eyTns/simple_snake).              *)
(*                                                                         *)
(* The process is `while True: main()`.  main() runs the settings loop,    *)
(* then one of two game loops (Classic: clock driven, Relaxed: key         *)
(* driven).  One action of the model is one pygame event handled by the    *)
(* body of a `for event in pygame.event.get()` loop, or the rest of one    *)
(* iteration of the enclosing `while` loop (the part after the event       *)
(* drain).  Any number of events may be handled between two loop ends,     *)
(* which is what a drain does.                                             *)
(*                                                                         *)
(* The board is scaled down: MIN_BOARD_SIZE / MAX_BOARD_SIZE are 6 / 32 in *)
(* the source and 2 / 3 here, so that a snake can fill the whole board     *)
(* within the explored state space.  MaxCells caps the boards a game is    *)
(* started on.                                                             *)
(***************************************************************************)
EXTENDS Integers, Sequences, FiniteSets, TLC

\* ------------------------------------------------------------------ bounds
MIN_BOARD_SIZE == 2
MAX_BOARD_SIZE == 3
MaxCells == 8

\* --------------------------------------------------------------- constants
DEFAULT_BOARD_COLS == MAX_BOARD_SIZE
DEFAULT_BOARD_ROWS == MAX_BOARD_SIZE
SHIFT_STEP == 10
SNAKE_MOVE_INTERVAL == 1000 \div 6

CLASSIC == "classic"
RELAXED == "relaxed"

UP == <<0, -1>>
DOWN == <<0, 1>>
LEFT == <<-1, 0>>
RIGHT == <<1, 0>>

Directions == {UP, DOWN, LEFT, RIGHT}

\* pygame key identities the loops look at
K_UP == "K_UP"
K_DOWN == "K_DOWN"
K_LEFT == "K_LEFT"
K_RIGHT == "K_RIGHT"
K_RETURN == "K_RETURN"
K_SPACE == "K_SPACE"
K_q == "K_q"
K_r == "K_r"

Keys == {K_UP, K_DOWN, K_LEFT, K_RIGHT, K_RETURN, K_SPACE, K_q, K_r}

\* time (ms) that may pass between two readings of pygame.time.get_ticks()
FrameTimes == {SNAKE_MOVE_INTERVAL - 1, SNAKE_MOVE_INTERVAL}

Min(a, b) == IF a < b THEN a ELSE b

\* max() left out of the clamp
Max_unclamped(a, b) == b

Max(a, b) == IF a > b THEN a ELSE b

VARIABLES
    pc,                      \* "settings" | "game" | "exited"
    selected_mode,           \* main(): settings locals
    cursor_position,
    board_cols,
    board_rows,
    selecting_mode,
    BOARD_COLS,              \* module globals
    BOARD_ROWS,
    mode,                    \* main(): game locals
    snake,
    food,
    score,
    game_over,
    game_over_menu_position,
    game_complete,
    complete_menu_position,
    running,
    elapsed                  \* get_ticks() - last_move_time at the last clock reading or restart

settingsVars == <<selected_mode, cursor_position, board_cols, board_rows, selecting_mode>>

globalVars == <<BOARD_COLS, BOARD_ROWS>>

gameVars == <<mode, snake, food, score, game_over, game_over_menu_position,
              game_complete, complete_menu_position, running, elapsed>>

vars == <<pc, settingsVars, globalVars, gameVars>>

\* ------------------------------------------------------------------- Snake
Cells(cols, rows) == (0 .. cols - 1) \X (0 .. rows - 1)

Cons(x, s) == <<x>> \o s

Front(s) == SubSeq(s, 1, Len(s) - 1)

Range(s) == {s[i] : i \in 1 .. Len(s)}

\* Snake.__init__
Snake(cols, rows) ==
    [body |-> << <<cols \div 2, rows \div 2>> >>,
     direction |-> RIGHT,
     last_moved_direction |-> RIGHT,
     grow_pending |-> FALSE]

\* Snake.move that removes the tail whether or not the snake is growing
move_pop_always(s) ==
    LET head == s.body[1]
        new_head == <<head[1] + s.direction[1], head[2] + s.direction[2]>>
    IN  [body |-> Front(Cons(new_head, s.body)),
         direction |-> s.direction,
         last_moved_direction |-> s.direction,
         grow_pending |-> FALSE]

\* Snake.move that leaves grow_pending set
move_keep_pending(s) ==
    LET head == s.body[1]
        new_head == <<head[1] + s.direction[1], head[2] + s.direction[2]>>
        inserted == Cons(new_head, s.body)
    IN  [body |-> IF ~s.grow_pending THEN Front(inserted) ELSE inserted,
         direction |-> s.direction,
         last_moved_direction |-> s.direction,
         grow_pending |-> s.grow_pending]

\* Snake.move
move(s) ==
    LET head == s.body[1]
        new_head == <<head[1] + s.direction[1], head[2] + s.direction[2]>>
        inserted == Cons(new_head, s.body)
    IN  [body |-> IF ~s.grow_pending THEN Front(inserted) ELSE inserted,
         direction |-> s.direction,
         last_moved_direction |-> s.direction,
         grow_pending |-> FALSE]

\* Snake.grow that leaves the snake as it is
grow_ignored(s) == s

\* Snake.grow
grow(s) == [s EXCEPT !.grow_pending = TRUE]

\* Snake.change_direction, as the other revisions have it: the check is
\* against the queued direction
change_direction_queued(s, new_direction) ==
    LET opposite_of_queued == <<s.direction[1] * (-1), s.direction[2] * (-1)>>
    IN  IF new_direction # opposite_of_queued
        THEN [ok |-> TRUE, snake |-> [s EXCEPT !.direction = new_direction]]
        ELSE [ok |-> FALSE, snake |-> s]

\* Snake.change_direction that accepts every direction
change_direction_always(s, new_direction) ==
    [ok |-> TRUE, snake |-> [s EXCEPT !.direction = new_direction]]

\* Snake.change_direction: the return value and the snake after the call
change_direction(s, new_direction) ==
    LET opposite_of_last_move ==
            <<s.last_moved_direction[1] * (-1), s.last_moved_direction[2] * (-1)>>
    IN  IF new_direction # opposite_of_last_move
        THEN [ok |-> TRUE, snake |-> [s EXCEPT !.direction = new_direction]]
        ELSE [ok |-> FALSE, snake |-> s]

\* Snake.check_collision without the self-collision test
check_collision_walls_only(s) ==
    LET head_x == s.body[1][1]
        head_y == s.body[1][2]
    IN  head_x < 0 \/ head_x >= BOARD_COLS \/ head_y < 0 \/ head_y >= BOARD_ROWS

\* Snake.check_collision with > for >= in the wall test
check_collision_off_by_one(s) ==
    LET head_x == s.body[1][1]
        head_y == s.body[1][2]
    IN  IF head_x < 0 \/ head_x > BOARD_COLS \/ head_y < 0 \/ head_y > BOARD_ROWS
        THEN TRUE
        ELSE IF \E i \in 2 .. Len(s.body) : s.body[i] = s.body[1]
             THEN TRUE
             ELSE FALSE

\* Snake.check_collision
check_collision(s) ==
    LET head_x == s.body[1][1]
        head_y == s.body[1][2]
    IN  IF head_x < 0 \/ head_x >= BOARD_COLS \/ head_y < 0 \/ head_y >= BOARD_ROWS
        THEN TRUE
        ELSE IF \E i \in 2 .. Len(s.body) : s.body[i] = s.body[1]
             THEN TRUE
             ELSE FALSE

\* Snake.can_move without the self-collision test
can_move_walls_only(s, direction) ==
    LET new_head == <<s.body[1][1] + direction[1], s.body[1][2] + direction[2]>>
    IN  ~(new_head[1] < 0 \/ new_head[1] >= BOARD_COLS
          \/ new_head[2] < 0 \/ new_head[2] >= BOARD_ROWS)

\* Snake.can_move
can_move(s, direction) ==
    LET head_x == s.body[1][1]
        head_y == s.body[1][2]
        new_head == <<head_x + direction[1], head_y + direction[2]>>
    IN  IF new_head[1] < 0 \/ new_head[1] >= BOARD_COLS
           \/ new_head[2] < 0 \/ new_head[2] >= BOARD_ROWS
        THEN FALSE
        ELSE IF new_head \in Range(s.body)
             THEN FALSE
             ELSE TRUE

\* -------------------------------------------------------------------- Food
\* Food.randomize_position repeated `while food.position in snake.body`:
\* the positions the rejection sampling can end with (none: it never ends)
randomize_position(body, cols, rows) == Cells(cols, rows) \ Range(body)


\* ------------------------------------------------------ main(): game loops
\* the locals of main() that the game loops read and write; `returned` is
\* set by a `return` out of main()
Locals ==
    [snake |-> snake, food |-> food, score |-> score,
     game_over |-> game_over, game_over_menu_position |-> game_over_menu_position,
     game_complete |-> game_complete, complete_menu_position |-> complete_menu_position,
     elapsed |-> elapsed, returned |-> FALSE]

\* snake = Snake(); food = Food(); while food.position in snake.body: ...;
\* score = 1 (and, in Classic, last_move_time = pygame.time.get_ticks())
new_game(g) ==
    LET fresh == Snake(BOARD_COLS, BOARD_ROWS)
    IN  {[g EXCEPT !.snake = fresh, !.food = f, !.score = 1, !.elapsed = 0] :
            f \in randomize_position(fresh.body, BOARD_COLS, BOARD_ROWS)}

\* "Handle game over menu" of both loops, for one KEYDOWN event
game_over_menu(g, key) ==
    IF ~g.game_over THEN {g}
    ELSE IF key = K_UP \/ key = K_DOWN
         THEN {[g EXCEPT !.game_over_menu_position = 1 - g.game_over_menu_position]}
    ELSE IF key = K_RETURN
         THEN IF g.game_over_menu_position = 0
              THEN {[n EXCEPT !.game_over = FALSE, !.game_over_menu_position = 0] :
                        n \in new_game(g)}
              ELSE {[g EXCEPT !.returned = TRUE]}
    ELSE IF key = K_r
         THEN {[n EXCEPT !.game_over = FALSE, !.game_over_menu_position = 0] :
                   n \in new_game(g)}
    ELSE {g}

\* the game complete menu without its K_r branch
game_complete_menu_no_r(g, key) ==
    IF ~g.game_complete THEN {g}
    ELSE IF key = K_UP \/ key = K_DOWN
         THEN {[g EXCEPT !.complete_menu_position = 1 - g.complete_menu_position]}
    ELSE IF key = K_RETURN
         THEN IF g.complete_menu_position = 0
              THEN {[n EXCEPT !.game_complete = FALSE, !.complete_menu_position = 0] :
                        n \in new_game(g)}
              ELSE {[g EXCEPT !.returned = TRUE]}
    ELSE {g}

\* "Handle game complete menu" of both loops, for one KEYDOWN event
game_complete_menu(g, key) ==
    IF ~g.game_complete THEN {g}
    ELSE IF key = K_UP \/ key = K_DOWN
         THEN {[g EXCEPT !.complete_menu_position = 1 - g.complete_menu_position]}
    ELSE IF key = K_RETURN
         THEN IF g.complete_menu_position = 0
              THEN {[n EXCEPT !.game_complete = FALSE, !.complete_menu_position = 0] :
                        n \in new_game(g)}
              ELSE {[g EXCEPT !.returned = TRUE]}
    ELSE IF key = K_r
         THEN {[n EXCEPT !.game_complete = FALSE, !.complete_menu_position = 0] :
                   n \in new_game(g)}
    ELSE {g}

\* the board-full test one cell late
board_full_late(s) == Len(s.body) > BOARD_COLS * BOARD_ROWS

\* the board-full test one cell early
board_full_early(s) == Len(s.body) >= BOARD_COLS * BOARD_ROWS - 1

\* len(snake.body) >= BOARD_COLS * BOARD_ROWS
board_full(s) == Len(s.body) >= BOARD_COLS * BOARD_ROWS

\* food placement after eating that may land on the snake
respawn_food_anywhere(s) == Cells(BOARD_COLS, BOARD_ROWS)

\* food.randomize_position(); while food.position in snake.body: ...
respawn_food(s) == randomize_position(s.body, BOARD_COLS, BOARD_ROWS)

\* the food-eaten step with the score going up by two
food_eaten_double(g) ==
    IF g.snake.body[1] = g.food
    THEN LET g1 == [g EXCEPT !.score = g.score + 2]
         IN  IF board_full(g1.snake)
             THEN {[g1 EXCEPT !.game_complete = TRUE, !.complete_menu_position = 0]}
             ELSE {[g1 EXCEPT !.food = f] : f \in respawn_food(g1.snake)}
    ELSE {g}

\* "If food was eaten, check if board is full or spawn new food"
food_eaten(g) ==
    IF g.snake.body[1] = g.food
    THEN LET g1 == [g EXCEPT !.score = g.score + 1]
         IN  IF board_full(g1.snake)
             THEN {[g1 EXCEPT !.game_complete = TRUE, !.complete_menu_position = 0]}
             ELSE {[g1 EXCEPT !.food = f] : f \in respawn_food(g1.snake)}
    ELSE {g}

\* "Check if next position has food (grow before moving)"; snake.move()
grow_and_move(g, direction) ==
    LET next_head == <<g.snake.body[1][1] + direction[1], g.snake.body[1][2] + direction[2]>>
        s1 == IF next_head = g.food THEN grow(g.snake) ELSE g.snake
    IN  [g EXCEPT !.snake = move(s1)]

KeyDirection(key) ==
    CASE key = K_UP -> UP
      [] key = K_DOWN -> DOWN
      [] key = K_LEFT -> LEFT
      [] key = K_RIGHT -> RIGHT

DirectionKeys == {K_UP, K_DOWN, K_LEFT, K_RIGHT}

\* Classic: "Handle keyboard input (Classic mode - direction change only)"
classic_keys(g, key) ==
    IF g.game_over \/ g.game_complete THEN {g}
    ELSE IF key \in DirectionKeys
         THEN {[g EXCEPT !.snake = change_direction(g.snake, KeyDirection(key)).snake]}
    ELSE IF key = K_q
         THEN {[g EXCEPT !.game_over = TRUE, !.game_over_menu_position = 0]}
    ELSE {g}

\* the three `if event.type == pygame.KEYDOWN and ...` blocks in sequence;
\* a `return` in the second skips the third
menus(g, key) ==
    UNION {IF g2.returned THEN {g2} ELSE game_complete_menu(g2, key) :
               g2 \in game_over_menu(g, key)}

\* Classic: one KEYDOWN event through the body of the event loop
classic_event(g, key) == UNION {menus(g1, key) : g1 \in classic_keys(g, key)}

\* Classic: a timed move that is never let through
tick_guard_never(g) == FALSE

\* Classic: `if not game_over:` in front of the timed move
tick_guard(g) == ~g.game_over

\* Classic: "Check collisions"
classic_collision(g) ==
    IF check_collision(g.snake)
    THEN [g EXCEPT !.game_over = TRUE, !.game_over_menu_position = 0]
    ELSE g

\* Classic tick moving only after the interval has been exceeded
classic_tick_strict(g, dt) ==
    IF tick_guard(g)
    THEN LET since == g.elapsed + dt
         IN  IF since > SNAKE_MOVE_INTERVAL
             THEN {classic_collision(g2) :
                       g2 \in food_eaten([grow_and_move(g, g.snake.direction)
                                              EXCEPT !.elapsed = 0])}
             ELSE {[g EXCEPT !.elapsed = since]}
    ELSE {g}

\* Classic: the part of a loop iteration after the event drain; dt is the
\* time since the last clock reading
classic_tick(g, dt) ==
    IF tick_guard(g)
    THEN LET since == g.elapsed + dt
         IN  IF since >= SNAKE_MOVE_INTERVAL
             THEN {classic_collision(g2) :
                       g2 \in food_eaten([grow_and_move(g, g.snake.direction)
                                              EXCEPT !.elapsed = 0])}
             ELSE {[g EXCEPT !.elapsed = since]}
    ELSE {g}

\* Relaxed: the move made without asking can_move
relaxed_can_move_always(s, direction) == TRUE

\* Relaxed: `if snake.can_move(new_direction):`
relaxed_can_move(s, direction) == can_move(s, direction)

\* Relaxed: "Move snake only if direction is valid and movement is possible"
relaxed_turn(g, direction) ==
    LET r == change_direction(g.snake, direction)
        g1 == [g EXCEPT !.snake = r.snake]
    IN  IF r.ok
        THEN IF relaxed_can_move(g1.snake, direction)
             THEN food_eaten(grow_and_move(g1, direction))
             ELSE {g1}
        ELSE {g1}

\* Relaxed: "Handle keyboard input (Relaxed mode - move on key press)"
relaxed_keys(g, key) ==
    IF g.game_over \/ g.game_complete THEN {g}
    ELSE IF key \in DirectionKeys
         THEN relaxed_turn(g, KeyDirection(key))
    ELSE IF key = K_q
         THEN {[g EXCEPT !.game_over = TRUE, !.game_over_menu_position = 0]}
    ELSE {g}

\* Relaxed: one KEYDOWN event through the body of the event loop
relaxed_event(g, key) == UNION {menus(g1, key) : g1 \in relaxed_keys(g, key)}


\* ---------------------------------------------------------------- actions
\* values of the game locals while main() is in the settings loop (they do
\* not exist yet)
NoGame ==
    /\ mode' = ""
    /\ snake' = [body |-> <<>>, direction |-> RIGHT,
                 last_moved_direction |-> RIGHT, grow_pending |-> FALSE]
    /\ food' = <<0, 0>>
    /\ score' = 0
    /\ game_over' = FALSE
    /\ game_over_menu_position' = 0
    /\ game_complete' = FALSE
    /\ complete_menu_position' = 0
    /\ running' = FALSE
    /\ elapsed' = 0

\* main() as it would be if the settings survived a return to the menu
EnterSettingsKeep ==
    /\ pc' = "settings"
    /\ selected_mode' = mode
    /\ cursor_position' = IF mode = CLASSIC THEN 0 ELSE 1
    /\ board_cols' = BOARD_COLS
    /\ board_rows' = BOARD_ROWS
    /\ selecting_mode' = TRUE

\* main(): "Mode selection" initial values
EnterSettings ==
    /\ pc' = "settings"
    /\ selected_mode' = CLASSIC
    /\ cursor_position' = 0
    /\ board_cols' = DEFAULT_BOARD_COLS
    /\ board_rows' = DEFAULT_BOARD_ROWS
    /\ selecting_mode' = TRUE

\* `return` out of main(), then `while True: main()` calls it again
ReturnToMainMenu ==
    /\ EnterSettings
    /\ NoGame
    /\ UNCHANGED globalVars

Init ==
    /\ pc = "settings"
    /\ selected_mode = CLASSIC
    /\ cursor_position = 0
    /\ board_cols = DEFAULT_BOARD_COLS
    /\ board_rows = DEFAULT_BOARD_ROWS
    /\ selecting_mode = TRUE
    /\ BOARD_COLS = DEFAULT_BOARD_COLS
    /\ BOARD_ROWS = DEFAULT_BOARD_ROWS
    /\ mode = ""
    /\ snake = [body |-> <<>>, direction |-> RIGHT,
                last_moved_direction |-> RIGHT, grow_pending |-> FALSE]
    /\ food = <<0, 0>>
    /\ score = 0
    /\ game_over = FALSE
    /\ game_over_menu_position = 0
    /\ game_complete = FALSE
    /\ complete_menu_position = 0
    /\ running = FALSE
    /\ elapsed = 0

\* the settings locals of main()
SettingsLocals ==
    [selected_mode |-> selected_mode, cursor_position |-> cursor_position,
     board_cols |-> board_cols, board_rows |-> board_rows,
     selecting_mode |-> selecting_mode]

\* settings loop: the locals after one KEYDOWN event; shift_pressed is
\* pygame.key.get_mods() & KMOD_SHIFT, lo and hi are MIN_BOARD_SIZE and
\* MAX_BOARD_SIZE
settings_key(st, key, shift_pressed, lo, hi) ==
    LET step == IF shift_pressed THEN SHIFT_STEP ELSE 1
        cursor == IF key = K_UP THEN (st.cursor_position - 1) % 4
                  ELSE IF key = K_DOWN THEN (st.cursor_position + 1) % 4
                  ELSE st.cursor_position
    IN  [cursor_position |-> cursor,
         selected_mode |->
             IF key \in {K_UP, K_DOWN}
             THEN IF cursor = 0 THEN CLASSIC
                  ELSE IF cursor = 1 THEN RELAXED
                  ELSE st.selected_mode
             ELSE st.selected_mode,
         board_cols |->
             IF key = K_LEFT /\ st.cursor_position = 2
             THEN Max(lo, st.board_cols - step)
             ELSE IF key = K_RIGHT /\ st.cursor_position = 2
             THEN Min(hi, st.board_cols + step)
             ELSE st.board_cols,
         board_rows |->
             IF key = K_LEFT /\ st.cursor_position = 3
             THEN Max(lo, st.board_rows - step)
             ELSE IF key = K_RIGHT /\ st.cursor_position = 3
             THEN Min(hi, st.board_rows + step)
             ELSE st.board_rows,
         selecting_mode |->
             IF key \in {K_RETURN, K_SPACE} /\ st.cursor_position \in {0, 1}
             THEN FALSE
             ELSE st.selecting_mode]

\* the settings locals after a step of the settings loop
SetSettings(st) ==
    /\ selected_mode' = st.selected_mode
    /\ cursor_position' = st.cursor_position
    /\ board_cols' = st.board_cols
    /\ board_rows' = st.board_rows
    /\ selecting_mode' = st.selecting_mode

\* settings loop: one KEYDOWN event
SettingsKey ==
    /\ pc = "settings"
    /\ \E key \in Keys, shift_pressed \in BOOLEAN :
           SetSettings(settings_key(SettingsLocals, key, shift_pressed,
                                    MIN_BOARD_SIZE, MAX_BOARD_SIZE))
    /\ pc' = pc
    /\ UNCHANGED <<globalVars, gameVars>>

\* settings loop: pygame.QUIT -> pygame.quit(); sys.exit()
SettingsQuit ==
    /\ pc = "settings"
    /\ pc' = "exited"
    /\ UNCHANGED <<settingsVars, globalVars, gameVars>>

\* settings loop left (`while selecting_mode` is false): "Update global grid
\* settings", "Create game objects", "Game state"
StartGame ==
    /\ pc = "settings"
    /\ ~selecting_mode
    /\ board_cols * board_rows <= MaxCells
    /\ pc' = "game"
    /\ BOARD_COLS' = board_cols
    /\ BOARD_ROWS' = board_rows
    /\ mode' = selected_mode
    /\ snake' = Snake(board_cols, board_rows)
    /\ food' \in randomize_position(snake'.body, board_cols, board_rows)
    /\ score' = 1
    /\ game_over' = FALSE
    /\ game_over_menu_position' = 0
    /\ game_complete' = FALSE
    /\ complete_menu_position' = 0
    /\ running' = TRUE
    /\ elapsed' = 0
    /\ UNCHANGED settingsVars

\* the game locals after a step of a game loop
SetLocals(g) ==
    /\ snake' = g.snake
    /\ food' = g.food
    /\ score' = g.score
    /\ game_over' = g.game_over
    /\ game_over_menu_position' = g.game_over_menu_position
    /\ game_complete' = g.game_complete
    /\ complete_menu_position' = g.complete_menu_position
    /\ elapsed' = g.elapsed

\* a KEYDOWN event handled: either main() goes on or it has returned
AfterEvent(g) ==
    IF g.returned
    THEN ReturnToMainMenu
    ELSE /\ SetLocals(g)
         /\ UNCHANGED <<pc, settingsVars, globalVars, mode, running>>

\* Classic loop: one KEYDOWN event
ClassicKey ==
    /\ pc = "game"
    /\ mode = CLASSIC
    /\ \E key \in Keys : \E g \in classic_event(Locals, key) : AfterEvent(g)

\* Relaxed loop: one KEYDOWN event
RelaxedKey ==
    /\ pc = "game"
    /\ mode = RELAXED
    /\ \E key \in Keys : \E g \in relaxed_event(Locals, key) : AfterEvent(g)

\* either game loop: pygame.QUIT -> running = False
GameQuit ==
    /\ pc = "game"
    /\ running' = FALSE
    /\ UNCHANGED <<pc, settingsVars, globalVars, mode, snake, food, score, game_over,
                   game_over_menu_position, game_complete, complete_menu_position, elapsed>>

\* `while running:` tested again; when false: pygame.quit(); sys.exit()
LoopTest == IF running THEN pc' = pc ELSE pc' = "exited"

\* Classic loop: the rest of an iteration after the event drain
ClassicTick ==
    /\ pc = "game"
    /\ mode = CLASSIC
    /\ \E dt \in FrameTimes : \E g \in classic_tick(Locals, dt) : SetLocals(g)
    /\ LoopTest
    /\ UNCHANGED <<settingsVars, globalVars, mode, running>>

\* Relaxed loop: the rest of an iteration after the event drain (drawing only)
RelaxedFrame ==
    /\ pc = "game"
    /\ mode = RELAXED
    /\ LoopTest
    /\ UNCHANGED <<settingsVars, globalVars, gameVars>>

Next ==
    \/ SettingsKey
    \/ SettingsQuit
    \/ StartGame
    \/ ClassicKey
    \/ RelaxedKey
    \/ GameQuit
    \/ ClassicTick
    \/ RelaxedFrame

Spec == Init /\ [][Next]_vars


\* ------------------------------------------- Classic play left alone
\* a Classic game confirmed in the settings menu
IdleStart == StartGame /\ selected_mode = CLASSIC

\* Classic loop: a KEYDOWN event that arrives in a terminal state only
IdleMenuKey == (game_over \/ game_complete) /\ ClassicKey

IdleNext ==
    \/ SettingsKey
    \/ IdleStart
    \/ IdleMenuKey
    \/ ClassicTick

\* Classic games in which no key is pressed while the snake is in play; the
\* loop keeps iterating and the clock keeps running
IdleSpec == Init /\ [][IdleNext]_vars /\ WF_vars(ClassicTick)

\* ------------------------------------------- settings menu at full size
\* the board-size constants as the source has them
FULL_MIN_BOARD_SIZE == 6
FULL_MAX_BOARD_SIZE == 32
FULL_DEFAULT_BOARD_SIZE == 20

\* main() entered with the source's defaults
SettingsInit ==
    /\ pc = "settings"
    /\ selected_mode = CLASSIC
    /\ cursor_position = 0
    /\ board_cols = FULL_DEFAULT_BOARD_SIZE
    /\ board_rows = FULL_DEFAULT_BOARD_SIZE
    /\ selecting_mode = TRUE
    /\ BOARD_COLS = FULL_DEFAULT_BOARD_SIZE
    /\ BOARD_ROWS = FULL_DEFAULT_BOARD_SIZE
    /\ mode = ""
    /\ snake = [body |-> <<>>, direction |-> RIGHT,
                last_moved_direction |-> RIGHT, grow_pending |-> FALSE]
    /\ food = <<0, 0>>
    /\ score = 0
    /\ game_over = FALSE
    /\ game_over_menu_position = 0
    /\ game_complete = FALSE
    /\ complete_menu_position = 0
    /\ running = FALSE
    /\ elapsed = 0

\* settings loop: one KEYDOWN event, board sizes clamped to 6 .. 32
SettingsKeyFull ==
    /\ pc = "settings"
    /\ \E key \in Keys, shift_pressed \in BOOLEAN :
           SetSettings(settings_key(SettingsLocals, key, shift_pressed,
                                    FULL_MIN_BOARD_SIZE, FULL_MAX_BOARD_SIZE))
    /\ pc' = pc
    /\ UNCHANGED <<globalVars, gameVars>>

SettingsNext ==
    \/ SettingsKeyFull
    \/ SettingsQuit

\* the settings loop alone, with the board sizes of the source
SettingsSpec == SettingsInit /\ [][SettingsNext]_vars


\* ================================================================= claims
InGame == pc = "game"

Playing == InGame /\ ~game_over /\ ~game_complete

BoardCells == Cells(BOARD_COLS, BOARD_ROWS)

HeadCell == snake.body[1]

\* Opposite(d) of the specification, by name
Opposite(d) ==
    CASE d = UP -> DOWN
      [] d = DOWN -> UP
      [] d = LEFT -> RIGHT
      [] d = RIGHT -> LEFT

Distinct(s) == \A i, j \in 1 .. Len(s) : i # j => s[i] # s[j]

\* C1: in Classic mode the queued direction is never the opposite of the
\* last executed move, so the next move never enters the neck cell body[1]
\* (body[2] here, sequences being 1-based).
C1_NoReversal ==
    (InGame /\ mode = CLASSIC) =>
        /\ snake.direction # Opposite(snake.last_moved_direction)
        /\ Len(snake.body) >= 2 =>
               <<HeadCell[1] + snake.direction[1], HeadCell[2] + snake.direction[2]>> # snake.body[2]

\* a Classic snake with a neck and a turn queued since its last move
C1_Witness ==
    /\ InGame /\ mode = CLASSIC /\ ~game_over
    /\ Len(snake.body) >= 2
    /\ snake.direction # snake.last_moved_direction

\* C2: change_direction(d) succeeds and sets the direction to d iff d is not
\* the opposite of the last moved direction, whatever direction is queued;
\* when it fails the snake is unchanged.
C2_ChangeDirection ==
    InGame =>
        \A d \in Directions :
            LET r == change_direction(snake, d)
            IN  /\ r.ok <=> d # Opposite(snake.last_moved_direction)
                /\ r.ok => /\ r.snake.direction = d
                           /\ r.snake.body = snake.body
                           /\ r.snake.last_moved_direction = snake.last_moved_direction
                           /\ r.snake.grow_pending = snake.grow_pending
                /\ ~r.ok => r.snake = snake

\* a turn has been accepted and not yet executed, and the direction that is
\* refused now is not the opposite of the queued one
C2_Witness ==
    /\ Playing
    /\ snake.direction # snake.last_moved_direction
    /\ ~change_direction(snake, Opposite(snake.last_moved_direction)).ok
    /\ change_direction(snake, Opposite(snake.direction)).ok

\* C3: GameOver and GameComplete are never both set.
C3_OneTerminalState == InGame => ~(game_over /\ game_complete)

\* C4: while Playing the food is on an in-bounds cell that is not a cell of
\* the snake.
C4_FoodOffSnake ==
    Playing => food \in BoardCells /\ food \notin Range(snake.body)

\* Playing after the food has been eaten and placed again at least twice
C4_Witness == Playing /\ Len(snake.body) >= 3 /\ score >= 3

\* C5: while Playing all body cells are pairwise distinct and in bounds (a
\* Classic move onto a wall or the body leaves Playing within its tick).
C5_BodyDistinctInBounds ==
    Playing => Distinct(snake.body) /\ Range(snake.body) \subseteq BoardCells

\* a Classic tick has run the head into the body and ended Playing
C5_Witness ==
    /\ InGame /\ mode = CLASSIC /\ game_over /\ ~game_complete
    /\ HeadCell \in BoardCells
    /\ \E i \in 2 .. Len(snake.body) : snake.body[i] = HeadCell

\* C6: no Playing state has the board full, and GameComplete is only set
\* with the board full.
C6_BoardComplete ==
    InGame =>
        /\ Playing => Len(snake.body) < BOARD_COLS * BOARD_ROWS
        /\ game_complete => Len(snake.body) >= BOARD_COLS * BOARD_ROWS

\* the move that filled the last cell has raised GameComplete
C6_Witness ==
    /\ InGame /\ game_complete /\ ~game_over
    /\ Len(snake.body) = BOARD_COLS * BOARD_ROWS
    /\ Range(snake.body) = BoardCells

\* a Relaxed direction key that passes the reversal check and cannot move
Blocked(d) ==
    /\ Playing /\ mode = RELAXED
    /\ change_direction(snake, d).ok
    /\ ~can_move(snake, d)

DirectionKey(d) == CHOOSE key \in DirectionKeys : KeyDirection(key) = d

\* C7 as stated: a blocked Relaxed key press changes nothing at all.
C7_BlockedIsNoOp ==
    \A d \in Directions :
        Blocked(d) => relaxed_event(Locals, DirectionKey(d)) = {Locals}

\* C7 amended: a blocked Relaxed key press changes nothing but the snake's
\* direction, which becomes d.
C7_BlockedOnlyTurns ==
    \A d \in Directions :
        Blocked(d) =>
            relaxed_event(Locals, DirectionKey(d)) =
                {[Locals EXCEPT !.snake.direction = d]}

\* a blocked key press has been handled: the direction differs from the last
\* move, which in Relaxed mode no executed move leaves behind
C7_Witness ==
    /\ Playing /\ mode = RELAXED
    /\ snake.direction # snake.last_moved_direction
    /\ Blocked(snake.direction)

\* C8: in Relaxed mode the head is never out of bounds or on another body
\* cell, and no key other than the force-end key raises GameOver.
C8_RelaxedNoCollision ==
    (InGame /\ mode = RELAXED) =>
        /\ HeadCell \in BoardCells
        /\ \A i \in 2 .. Len(snake.body) : snake.body[i] # HeadCell
        /\ ~game_over =>
               \A key \in Keys \ {K_q} :
                   \A g \in relaxed_event(Locals, key) : ~g.game_over

\* Relaxed play with the head against a wall and against its own body
C8_Witness ==
    /\ Playing /\ mode = RELAXED
    /\ \E d \in Directions :
           <<HeadCell[1] + d[1], HeadCell[2] + d[2]>> \notin BoardCells
    /\ \E d \in Directions :
           /\ d # Opposite(snake.last_moved_direction)
           /\ <<HeadCell[1] + d[1], HeadCell[2] + d[2]>> \in Range(snake.body)

\* C9: a step of a game loop that raises GameOver or GameComplete leaves
\* that state's menu cursor at 0.
C9_CursorResets ==
    [][(InGame /\ pc' = "game") =>
           /\ (~game_over /\ game_over') => game_over_menu_position' = 0
           /\ (~game_complete /\ game_complete') => complete_menu_position' = 0]_vars

\* C10 as stated: a return to the settings menu shows the mode and board
\* size of the game that was left.
C10_SettingsRetained ==
    [][(InGame /\ pc' = "settings") =>
           /\ selected_mode' = mode
           /\ board_cols' = BOARD_COLS
           /\ board_rows' = BOARD_ROWS]_vars

\* C10 amended: Confirm on MainMenu in GameOver or GameComplete returns to
\* the settings menu, which starts over with Classic, cursor 0 and the default
\* board size.
C10_SettingsReset ==
    [][(InGame /\ pc' = "settings") =>
           /\ \/ game_over /\ game_over_menu_position = 1
              \/ game_complete /\ complete_menu_position = 1
           /\ selected_mode' = CLASSIC
           /\ cursor_position' = 0
           /\ board_cols' = DEFAULT_BOARD_COLS
           /\ board_rows' = DEFAULT_BOARD_ROWS
           /\ selecting_mode']_vars

\* back in the settings menu after a game on a board of another size
C10_Witness ==
    /\ pc = "settings" /\ selecting_mode
    /\ BOARD_COLS * BOARD_ROWS # board_cols * board_rows
    /\ board_cols = DEFAULT_BOARD_COLS /\ board_rows = DEFAULT_BOARD_ROWS


\* one KEYDOWN event handled by the game loop that is running
GameEvent(key) ==
    IF mode = CLASSIC THEN classic_event(Locals, key) ELSE relaxed_event(Locals, key)

\* main() goes on in Playing with a new snake of length 1 on the centre cell,
\* food off the snake and the score at its initial value
Restarted(g) ==
    /\ ~g.returned
    /\ g.snake.body = << <<BOARD_COLS \div 2, BOARD_ROWS \div 2>> >>
    /\ g.food \in BoardCells /\ g.food \notin Range(g.snake.body)
    /\ g.score = 1
    /\ ~g.game_over /\ ~g.game_complete

\* C11: from GameOver or GameComplete, Confirm with that state's cursor on
\* Restart re-enters Playing with a fresh snake, food off the snake and the
\* score reset.
C11_ConfirmRestarts ==
    (InGame /\ (\/ game_over /\ game_over_menu_position = 0
                \/ game_complete /\ complete_menu_position = 0)) =>
        \A g \in GameEvent(K_RETURN) : Restarted(g)

\* C12: the quick-restart key restarts from GameOver and GameComplete
\* whatever the cursors are, and changes nothing while Playing.
C12_QuickRestart ==
    InGame =>
        /\ (game_over \/ game_complete) =>
               /\ GameEvent(K_r) # {}
               /\ \A g \in GameEvent(K_r) : Restarted(g)
        /\ Playing => GameEvent(K_r) = {Locals}

\* a terminal state with a cursor on MainMenu and a snake that has grown
C12_Witness ==
    /\ InGame /\ (game_over \/ game_complete)
    /\ (game_over => game_over_menu_position = 1)
    /\ (game_complete => complete_menu_position = 1)
    /\ Len(snake.body) >= 2 /\ score >= 2

\* C13: the score is set to its initial value when Playing is entered
\* (start or restart), goes up by one in exactly the moves whose new head is
\* on the food, and is left alone by every other step of a game loop.
C13_ScoreChanges ==
    [][/\ (pc = "settings" /\ pc' = "game") => score' = 1
       /\ (InGame /\ pc' = "game") =>
              LET restart == (game_over \/ game_complete) /\ ~game_over' /\ ~game_complete'
                  eaten == /\ ~restart
                           /\ snake'.body # snake.body
                           /\ snake'.body[1] = food
              IN  /\ restart => score' = 1
                  /\ eaten => score' = score + 1
                  /\ (~restart /\ ~eaten) => score' = score]_vars

\* GameOver entered after the food has been eaten at least twice
C13_Witness ==
    /\ InGame /\ game_over /\ ~game_complete
    /\ score >= 3

\* C14: move() puts head + direction in front of the body; the length is
\* kept, or grows by one with grow_pending cleared when grow() was called
\* before; last_moved_direction becomes the direction moved in.
C14_Move ==
    InGame =>
        LET n == Len(snake.body)
            new_head == <<HeadCell[1] + snake.direction[1], HeadCell[2] + snake.direction[2]>>
            kept == move(snake)
            grown == move(grow(snake))
        IN  /\ kept.body[1] = new_head /\ grown.body[1] = new_head
            /\ snake.grow_pending = FALSE
            /\ Len(kept.body) = n
            /\ \A i \in 2 .. n : kept.body[i] = snake.body[i - 1]
            /\ Len(grown.body) = n + 1
            /\ \A i \in 2 .. n + 1 : grown.body[i] = snake.body[i - 1]
            /\ ~kept.grow_pending /\ ~grown.grow_pending
            /\ kept.last_moved_direction = snake.direction
            /\ grown.last_moved_direction = snake.direction
            /\ kept.direction = snake.direction /\ grown.direction = snake.direction

\* a Classic snake that has grown by a move upwards and has moved on since
C14_Witness ==
    /\ Playing /\ mode = CLASSIC
    /\ Len(snake.body) = 2
    /\ snake.body[2] = <<HeadCell[1], HeadCell[2] + 1>>
    /\ HeadCell # <<BOARD_COLS \div 2, BOARD_ROWS \div 2 - 1>>

\* the snakes check_collision is asked about: the current one and the ones
\* a move in any direction, growing or not, would give
CollisionInputs ==
    {snake} \cup
    UNION {{move([snake EXCEPT !.direction = d]), move(grow([snake EXCEPT !.direction = d]))} :
               d \in Directions}

\* C15: check_collision() is true iff the head is outside the grid or equal
\* to another body cell; it is false on the corner cells of a body without
\* duplicates.
C15_CheckCollision ==
    InGame =>
        \A s \in CollisionInputs :
            /\ check_collision(s) <=>
                   \/ s.body[1] \notin BoardCells
                   \/ \E i \in 2 .. Len(s.body) : s.body[i] = s.body[1]
            /\ (s.body[1] \in {<<0, 0>>, <<BOARD_COLS - 1, BOARD_ROWS - 1>>} /\ Distinct(s.body))
                   => ~check_collision(s)

\* a snake with its head on the corner (cols-1, rows-1), one neighbour cell
\* outside the grid and one on its own body
C15_Witness ==
    /\ InGame /\ ~game_over
    /\ Len(snake.body) >= 2
    /\ HeadCell = <<BOARD_COLS - 1, BOARD_ROWS - 1>>
    /\ ~check_collision(snake)
    /\ \E s \in CollisionInputs : s.body[1] \notin BoardCells /\ check_collision(s)
    /\ \E s \in CollisionInputs :
           /\ s.body[1] \in BoardCells
           /\ s.body[1] # snake.body[2]
           /\ check_collision(s)

\* the mode option under a settings cursor
ModeUnder(cursor) == IF cursor = 0 THEN CLASSIC ELSE RELAXED

\* C16: Confirm is accepted on a mode option only and changes nothing else;
\* once accepted, the mode under the cursor and the configured board size
\* stay as they are until Playing starts with exactly them.
C16_ConfirmCommits ==
    [][(pc = "settings" /\ pc' # "exited") =>
           /\ (selecting_mode /\ ~selecting_mode') =>
                  /\ cursor_position \in {0, 1}
                  /\ selected_mode = ModeUnder(cursor_position)
                  /\ UNCHANGED <<cursor_position, selected_mode, board_cols, board_rows>>
           /\ (~selecting_mode /\ pc' = "settings") =>
                  UNCHANGED <<selected_mode, board_cols, board_rows>>
           /\ (~selecting_mode /\ pc' = "game") =>
                  /\ mode' = selected_mode
                  /\ BOARD_COLS' = board_cols /\ BOARD_ROWS' = board_rows
                  /\ ~game_over' /\ ~game_complete']_vars

FullRange == FULL_MIN_BOARD_SIZE .. FULL_MAX_BOARD_SIZE

\* v brought back into the board-size range
Clamp(v) ==
    IF v < FULL_MIN_BOARD_SIZE THEN FULL_MIN_BOARD_SIZE
    ELSE IF v > FULL_MAX_BOARD_SIZE THEN FULL_MAX_BOARD_SIZE
    ELSE v

Stepped(v) == {Clamp(v + k) : k \in {-10, -1, 1, 10}}

\* C17: in the settings menu columns and rows stay within 6 .. 32; a change
\* is one step of 1 or 10, clamped, of the dimension under the cursor and of
\* nothing else, and never happens on the mode rows.
C17_BoardSizeClamped ==
    /\ board_cols \in FullRange /\ board_rows \in FullRange
    /\ [][(pc = "settings" /\ pc' = "settings") =>
              /\ board_cols' \in FullRange /\ board_rows' \in FullRange
              /\ board_cols' # board_cols =>
                     /\ cursor_position = 2
                     /\ board_cols' \in Stepped(board_cols)
                     /\ UNCHANGED <<cursor_position, selected_mode, board_rows, selecting_mode>>
              /\ board_rows' # board_rows =>
                     /\ cursor_position = 3
                     /\ board_rows' \in Stepped(board_rows)
                     /\ UNCHANGED <<cursor_position, selected_mode, board_cols, selecting_mode>>]_vars

\* columns at the lower and rows at the upper end of the range, the cursor
\* back on a mode row
C17_Witness ==
    /\ pc = "settings"
    /\ board_cols = FULL_MIN_BOARD_SIZE /\ board_rows = FULL_MAX_BOARD_SIZE
    /\ cursor_position = 1

\* C18: once a game loop has seen pygame.QUIT (running is False) the process
\* does not come back to the settings menu: its next step but for further
\* events of the drain is the exit.
C18_QuitTerminates ==
    [][(InGame /\ ~running) => pc' # "settings"]_vars

\* C19 as stated: after an Up move, Left is accepted and a following Right
\* is refused, the direction staying Left.
C19_RightRefused ==
    (InGame /\ snake.last_moved_direction = UP /\ snake.direction = UP) =>
        LET first == change_direction(snake, LEFT)
            second == change_direction(first.snake, RIGHT)
        IN  /\ first.ok /\ first.snake.direction = LEFT
            /\ ~second.ok /\ second.snake.direction = LEFT

\* C19 amended: after an Up move, Left is accepted and a following Right is
\* accepted too (Right is not the opposite of the last move); it is Down
\* that is refused, the direction staying Left.
C19_RightAccepted ==
    (InGame /\ snake.last_moved_direction = UP /\ snake.direction = UP) =>
        LET first == change_direction(snake, LEFT)
            second == change_direction(first.snake, RIGHT)
            down == change_direction(first.snake, DOWN)
        IN  /\ first.ok /\ first.snake.direction = LEFT
            /\ first.snake.last_moved_direction = UP
            /\ second.ok /\ second.snake.direction = RIGHT
            /\ ~down.ok /\ down.snake.direction = LEFT

\* Classic play after an Up move with Left queued and no move since
C19_Witness ==
    /\ Playing /\ mode = CLASSIC
    /\ snake.last_moved_direction = UP /\ snake.direction = LEFT
    /\ HeadCell[2] < BOARD_ROWS \div 2
    /\ change_direction(snake, RIGHT).ok

\* C20: in Classic play a loop iteration moves the snake exactly when the
\* time since the last move (or the start) has reached SNAKE_MOVE_INTERVAL;
\* it then makes one step only and restarts the interval, otherwise it leaves
\* the snake alone and the time runs on; between iterations the time since
\* the last move is below the interval.
C20_MoveInterval ==
    (Playing /\ mode = CLASSIC) =>
        /\ elapsed < SNAKE_MOVE_INTERVAL
        /\ \A dt \in FrameTimes : \A g \in classic_tick(Locals, dt) :
               IF elapsed + dt >= SNAKE_MOVE_INTERVAL
               THEN /\ g.snake.body[1] = <<HeadCell[1] + snake.direction[1],
                                           HeadCell[2] + snake.direction[2]>>
                    /\ Len(g.snake.body) \in {Len(snake.body), Len(snake.body) + 1}
                    /\ \A i \in 2..Len(g.snake.body) :
                           g.snake.body[i] = snake.body[i - 1]
                    /\ g.snake.last_moved_direction = snake.direction
                    /\ g.elapsed = 0
               ELSE /\ g.snake = snake
                    /\ g.elapsed = elapsed + dt
                    /\ g.elapsed < SNAKE_MOVE_INTERVAL

\* Classic play one millisecond short of the interval, a move behind it
C20_Witness ==
    /\ Playing /\ mode = CLASSIC
    /\ elapsed = SNAKE_MOVE_INTERVAL - 1
    /\ Len(snake.body) >= 2
    /\ classic_tick(Locals, 1) # {}

\* the snakes on which a Classic tick out of g calls food.randomize_position()
ClassicRespawns(g) ==
    IF tick_guard(g)
    THEN LET m == grow_and_move(g, g.snake.direction)
         IN  IF m.snake.body[1] = g.food /\ ~board_full(m.snake)
             THEN {m.snake} ELSE {}
    ELSE {}

\* the snakes on which a Relaxed direction key out of g calls
\* food.randomize_position()
RelaxedRespawns(g, d) ==
    LET r == change_direction(g.snake, d)
    IN  IF ~g.game_over /\ ~g.game_complete /\ r.ok /\ relaxed_can_move(r.snake, d)
        THEN LET m == grow_and_move([g EXCEPT !.snake = r.snake], d)
             IN  IF m.snake.body[1] = g.food /\ ~board_full(m.snake)
                 THEN {m.snake} ELSE {}
        ELSE {}

\* the cells of the board that s leaves free
FreeCells(s) == BoardCells \ Range(s.body)

\* C21: every call of the food placement finds a free cell of the board: at
\* the start, at a restart, and after each eaten food that does not fill the
\* board, in both modes.
C21_PlacementHasRoom ==
    /\ (pc = "settings" /\ board_cols * board_rows <= MaxCells) =>
           randomize_position(Snake(board_cols, board_rows).body,
                              board_cols, board_rows) # {}
    /\ InGame =>
           /\ FreeCells(Snake(BOARD_COLS, BOARD_ROWS)) # {}
           /\ \A key \in {K_RETURN, K_r} :
                  /\ game_over_menu(Locals, key) # {}
                  /\ game_complete_menu(Locals, key) # {}
    /\ (InGame /\ mode = CLASSIC) =>
           \A s \in ClassicRespawns(Locals) :
               /\ FreeCells(s) # {}
               /\ respawn_food(s) = FreeCells(s)
    /\ (InGame /\ mode = RELAXED) =>
           \A d \in Directions : \A s \in RelaxedRespawns(Locals, d) :
               /\ FreeCells(s) # {}
               /\ respawn_food(s) = FreeCells(s)

\* play with two cells free and the food in front of the head: the next
\* move eats it and the placement has one cell left
C21_Witness ==
    /\ Playing
    /\ Len(snake.body) = BOARD_COLS * BOARD_ROWS - 2
    /\ \/ mode = CLASSIC /\ ClassicRespawns(Locals) # {}
       \/ mode = RELAXED /\ \E d \in Directions : RelaxedRespawns(Locals, d) # {}

\* C22: a step of a game loop that starts and ends in a terminal state
\* (GameOver or GameComplete; not a restart, not the way back to the main
\* menu) leaves the snake, the food and the score as they were.
C22_TerminalFrozen ==
    [][(/\ InGame /\ (game_over \/ game_complete)
        /\ pc' = "game" /\ (game_over' \/ game_complete'))
           => (snake' = snake /\ food' = food /\ score' = score)]_vars

\* C23: in every state of a game loop the score is the length of the
\* snake's body, and a step that stays in the game adds one to the score
\* exactly when it adds one cell to the body.
C23_ScoreIsLength ==
    /\ InGame => score = Len(snake.body)
    /\ [][(InGame /\ pc' = "game") =>
              (score' = score + 1 <=> Len(snake'.body) = Len(snake.body) + 1)]_vars

\* a Relaxed board filled to the last cell
C23_Witness ==
    /\ InGame /\ mode = RELAXED /\ game_complete
    /\ score = BOARD_COLS * BOARD_ROWS
    /\ Len(snake.body) = BOARD_COLS * BOARD_ROWS

\* C24: in every state of a game loop, terminal states included, the body
\* has at most BOARD_COLS * BOARD_ROWS cells and no growth is pending.
C24_LengthBounded ==
    InGame => /\ Len(snake.body) <= BOARD_COLS * BOARD_ROWS
              /\ ~snake.grow_pending

\* a Classic snake that filled the board and was moved once more by the tick
C24_Witness ==
    /\ InGame /\ mode = CLASSIC /\ game_complete /\ game_over
    /\ Len(snake.body) = BOARD_COLS * BOARD_ROWS
    /\ HeadCell # food

\* C25: a Classic game in which no key is pressed after the start or a
\* restart ends in GameOver: the snake keeps heading Right on the middle
\* row, has made at most BOARD_COLS - BOARD_COLS div 2 moves, is stopped
\* exactly when the head is one column past the grid, and the board is
\* never complete.
C25_IdleEndsInGameOver ==
    /\ [](InGame =>
              /\ ~game_complete
              /\ snake.direction = RIGHT
              /\ HeadCell[2] = BOARD_ROWS \div 2
              /\ HeadCell[1] - BOARD_COLS \div 2 <= BOARD_COLS - BOARD_COLS \div 2
              /\ game_over <=> HeadCell[1] = BOARD_COLS)
    /\ (InGame /\ ~game_over) ~> (InGame /\ game_over)

\* GameOver past the right wall with a food eaten on the way
C25_Witness ==
    /\ InGame /\ mode = CLASSIC /\ game_over /\ ~game_complete
    /\ HeadCell[1] = BOARD_COLS
    /\ snake.last_moved_direction = RIGHT
    /\ Len(snake.body) = 2

=============================================================================
